---- MODULE Spec2Model ----
(***************************************************************************)
(* Model of pkg/raindrop/client.go: the Raindrop.io API client.            *)
(*                                                                         *)
(* State: the Client record NewClient returns (client), a history copy of  *)
(* it as created (created) and the call in progress or just finished       *)
(* (call).  An operation that blocks on the network is split at its        *)
(* blocking points: the operation's own action runs up to the send, and    *)
(* the actions httpGet / httpClientDo deliver what the transport answers   *)
(* and run the rest of the operation.                                      *)
(*                                                                         *)
(* Strings supplied by the caller that end up in a URL path are sequences  *)
(* of one-character strings, so that escaping and unescaping are computed. *)
(* JSON response bodies are functions from keys to the text of the value.  *)
(***************************************************************************)
EXTENDS Integers, Sequences, FiniteSets, TLC

VARIABLES client, created, call

vars == <<client, created, call>>

(***************************************************************************)
(* Bounds of the model.                                                    *)
(***************************************************************************)
MaxSegLen == 2      \* longest caller-supplied collectionID
MaxId == 1          \* largest collection identifier / parentId

(***************************************************************************)
(* Constants of client.go.                                                 *)
(***************************************************************************)
apiHost == "https://api.raindrop.io"
authHost == "https://raindrop.io"
endpointAuthorize == "/oauth/authorize"
endpointAccessToken == "/oauth/access_token"
endpointGetRootCollections == "/rest/v1/collections"
endpointGetChildCollections == "/rest/v1/collections/childrens"
endpointGetCollection == "/rest/v1/collection/"
endpointCreateCollection == "/rest/v1/collection"
endpointRaindrop == "/rest/v1/raindrop"
endpointRaindrops == "/rest/v1/raindrops/"
endpointTags == "/rest/v1/tags"
StatusOK == 200
StatusBadRequest == 400

(***************************************************************************)
(* Input domains.                                                          *)
(***************************************************************************)
Alphabet == {"7", "%"}
Segs == UNION {[1..n -> Alphabet] : n \in 0..MaxSegLen}
Ids == 0..MaxId
Tokens == {"", "tok1"}
Contexts == {"nil", "ctx"}
Statuses == {200, 400, 404}
ExpectedStatuses == {200, 201, 400}

NoErr == [kind |-> "nil", code |-> 0, text |-> ""]
Err(k, c, t) == [kind |-> k, code |-> c, text |-> t]

(***************************************************************************)
(* net/url as client.go uses it, on the caller-supplied path segment.  The *)
(* hosts and endpoint constants hold no '%' and no '+', so String,         *)
(* QueryUnescape and Parse leave them as they are.                         *)
(***************************************************************************)
HexDigits == <<"0", "1", "2", "3", "4", "5", "6", "7", "8", "9",
               "a", "b", "c", "d", "e", "f">>
IsHex(c) == \E i \in 1..Len(HexDigits) : HexDigits[i] = c
HexVal(c) == (CHOOSE i \in 1..Len(HexDigits) : HexDigits[i] = c) - 1
ByteChar(n) ==
    CASE n = 37 -> "%"
      [] n = 55 -> "7"
      [] n = 119 -> "w"
      [] n = 117 -> "u"
      [] n = 114 -> "r"
      [] OTHER -> "?"

\* url.URL.String: EscapedPath escapes '%' as "%25".
RECURSIVE EscapePath(_)
EscapePath(s) ==
    IF s = <<>> THEN <<>>
    ELSE (IF Head(s) = "%" THEN <<"%", "2", "5">> ELSE <<Head(s)>>)
         \o EscapePath(Tail(s))

\* every '%' is followed by two hex digits
RECURSIVE validEscapes(_)
validEscapes(s) ==
    IF s = <<>> THEN TRUE
    ELSE IF Head(s) = "%"
         THEN /\ Len(s) >= 3
              /\ IsHex(s[2])
              /\ IsHex(s[3])
              /\ validEscapes(SubSeq(s, 4, Len(s)))
         ELSE validEscapes(Tail(s))

RECURSIVE decodeEscapes(_)
decodeEscapes(s) ==
    IF s = <<>> THEN <<>>
    ELSE IF Head(s) = "%"
         THEN <<ByteChar(16 * HexVal(s[2]) + HexVal(s[3]))>>
              \o decodeEscapes(SubSeq(s, 4, Len(s)))
         ELSE IF Head(s) = "+"
              THEN <<" ">> \o decodeEscapes(Tail(s))
              ELSE <<Head(s)>> \o decodeEscapes(Tail(s))

QueryUnescape(s) ==
    IF validEscapes(s)
    THEN [err |-> NoErr, s |-> decodeEscapes(s)]
    ELSE [err |-> Err("construction", 0, "invalid URL escape"), s |-> <<>>]

\* url.Parse inside http.NewRequest / http.NewRequestWithContext
urlParse(s) ==
    IF validEscapes(s) THEN NoErr
    ELSE Err("construction", 0, "invalid URL escape")

Digits == <<"0", "1", "2", "3", "4", "5", "6", "7", "8", "9">>
RECURSIVE Itoa(_)
Itoa(n) ==
    IF n < 10 THEN <<Digits[n + 1]>>
    ELSE Itoa(n \div 10) \o <<Digits[(n % 10) + 1]>>

\* path.Join of the client's base path, an endpoint and a caller's segment
URL(host, path, seg) == [host |-> host, path |-> path, seg |-> seg]
NoURL == URL("", "", <<>>)

(***************************************************************************)
(* encoding/json as client.go uses it.  A struct is a record; its json     *)
(* tags, its omitempty fields and its zero value are given per type.       *)
(***************************************************************************)
jsonTags(type) ==
    CASE type = "AccessTokenResponse" ->
           [AccessToken |-> "access_token", RefreshToken |-> "refresh_token",
            Expires |-> "expires", ExpiresIn |-> "expires_in",
            TokenType |-> "token_type", Error |-> "error"]
      [] type = "accessTokenRequest" ->
           [Code |-> "code", ClientID |-> "client_id",
            ClientSecret |-> "client_secret", RedirectUri |-> "redirect_uri",
            GrantType |-> "grant_type"]
      [] type = "refreshTokenRequest" ->
           [ClientId |-> "client_id", ClientSecret |-> "client_secret",
            GrantType |-> "grant_type", RefreshToken |-> "refresh_token"]
      [] type = "createCollectionRequest" ->
           [View |-> "view", Title |-> "title", Sort |-> "sort",
            Public |-> "public", ParentId |-> "parent.$id", Cover |-> "cover"]
      [] type = "CreateCollectionResponse" ->
           [Result |-> "result", Item |-> "item", Error |-> "error",
            ErrorMessage |-> "errorMessage"]
      [] type = "deleteTagsRequest" -> [Tags |-> "tags"]
      [] type = "DeleteTagsResponse" -> [Result |-> "result"]
      [] type = "GetCollectionsResponse" -> [Result |-> "result", Items |-> "items"]
      [] type = "GetCollectionResponse" -> [Result |-> "result", Item |-> "item"]
      [] type = "Raindrop" ->
           [PleaseParse |-> "pleaseParse", Tags |-> "tags", Cover |-> "cover",
            Title |-> "title", Link |-> "link"]
      [] type = "SingleRaindropResponse" -> [Result |-> "result", Items |-> "item"]
      [] type = "MultiRaindropsResponse" -> [Result |-> "result", Items |-> "items"]
      [] type = "Tags" -> [Result |-> "result", Items |-> "items"]

omitEmpty(type) ==
    CASE type = "createCollectionRequest" ->
           {"View", "Title", "Sort", "Public", "ParentId", "Cover"}
      [] type = "Raindrop" -> {"Tags", "Cover", "Title"}
      [] type = "AccessTokenResponse" ->
           {"AccessToken", "RefreshToken", "Expires", "ExpiresIn", "TokenType", "Error"}
      [] OTHER -> {}

\* the zero value of a struct: what new(T) and an unset field hold
zeroValue(type) ==
    CASE type = "AccessTokenResponse" ->
           [AccessToken |-> "", RefreshToken |-> "", Expires |-> "0",
            ExpiresIn |-> "0", TokenType |-> "", Error |-> ""]
      [] type = "createCollectionRequest" ->
           [View |-> "", Title |-> "", Sort |-> 0, Public |-> FALSE,
            ParentId |-> 0, Cover |-> <<>>]
      [] type = "CreateCollectionResponse" ->
           [Result |-> "false", Item |-> "{}", Error |-> "", ErrorMessage |-> ""]
      [] type = "DeleteTagsResponse" -> [Result |-> "false"]
      [] type = "GetCollectionsResponse" -> [Result |-> "false", Items |-> "null"]
      [] type = "GetCollectionResponse" -> [Result |-> "false", Item |-> "{}"]
      [] type = "Raindrop" ->
           [PleaseParse |-> "{}", Tags |-> <<>>, Cover |-> "", Title |-> "",
            Link |-> ""]
      [] type = "SingleRaindropResponse" -> [Result |-> "false", Items |-> "{}"]
      [] type = "MultiRaindropsResponse" -> [Result |-> "false", Items |-> "null"]
      [] type = "Tags" -> [Result |-> "false", Items |-> "null"]

\* a request body handed to newRequest: nil, or a struct of a given type
NoBody == [nil |-> TRUE, type |-> "", struct |-> <<>>]
Body(type, struct) == [nil |-> FALSE, type |-> type, struct |-> struct]

\* json.NewEncoder(&b).Encode(body): a field tagged omitempty is left out
\* when it holds its empty value; every other field is written under its tag.
\* The structs client.go encodes hold strings, numbers, booleans and string
\* slices only, for which Encode returns no error.
jsonEncode(body) ==
    LET tags == jsonTags(body.type)
        zero == zeroValue(body.type)
        keep == {f \in DOMAIN body.struct :
                    ~(f \in omitEmpty(body.type) /\ body.struct[f] = zero[f])}
    IN  [err |-> NoErr,
         obj |-> [k \in {tags[f] : f \in keep} |->
                     body.struct[CHOOSE f \in keep : tags[f] = k]]]

\* json.Unmarshal(body, clazz): a malformed text is an error and leaves the
\* target alone; otherwise each field whose tag is a key of the object takes
\* the value, every other key is ignored and every other field is kept.
jsonUnmarshal(wellFormed, obj, clazz, type) ==
    IF ~wellFormed
    THEN [err |-> Err("decode", 0, "invalid character"), clazz |-> clazz]
    ELSE [err |-> NoErr,
          clazz |-> [f \in DOMAIN clazz |->
                        IF jsonTags(type)[f] \in DOMAIN obj
                        THEN obj[jsonTags(type)[f]]
                        ELSE clazz[f]]]

(***************************************************************************)
(* newRequest                                                              *)
(***************************************************************************)
NoHeader == [ContentType |-> <<>>, Authorization |-> <<>>]
NoReq == [ctx |-> "nil", method |-> "", url |-> NoURL, query |-> <<>>,
          hasBody |-> FALSE, body |-> <<>>, header |-> NoHeader]

\* newRequest adding the Authorization header whatever the token
newRequestAlwaysBearer(accessToken, httpMethod, fullUrl, body, ctx) ==
    LET u == QueryUnescape(EscapePath(fullUrl.seg))
        enc == IF body.nil THEN [err |-> NoErr, obj |-> <<>>] ELSE jsonEncode(body)
        parsed == urlParse(u.s)
        bearerToken == "Bearer " \o accessToken
    IN  IF u.err # NoErr THEN [err |-> u.err, req |-> NoReq]
        ELSE IF enc.err # NoErr THEN [err |-> enc.err, req |-> NoReq]
        ELSE IF parsed # NoErr THEN [err |-> parsed, req |-> NoReq]
        ELSE [err |-> NoErr,
              req |-> [ctx |-> ctx,
                       method |-> httpMethod,
                       url |-> URL(fullUrl.host, fullUrl.path, u.s),
                       query |-> <<>>,
                       hasBody |-> ~body.nil,
                       body |-> enc.obj,
                       header |-> [ContentType |-> <<"application/json">>,
                                   Authorization |-> <<bearerToken>>]]]

newRequest(accessToken, httpMethod, fullUrl, body, ctx) ==
    LET u == QueryUnescape(EscapePath(fullUrl.seg))
        enc == IF body.nil THEN [err |-> NoErr, obj |-> <<>>] ELSE jsonEncode(body)
        parsed == urlParse(u.s)
        bearerToken == "Bearer " \o accessToken
    IN  IF u.err # NoErr THEN [err |-> u.err, req |-> NoReq]
        ELSE IF enc.err # NoErr THEN [err |-> enc.err, req |-> NoReq]
        ELSE IF parsed # NoErr THEN [err |-> parsed, req |-> NoReq]
        ELSE [err |-> NoErr,
              req |-> [ctx |-> ctx,
                       method |-> httpMethod,
                       url |-> URL(fullUrl.host, fullUrl.path, u.s),
                       query |-> <<>>,
                       hasBody |-> ~body.nil,
                       body |-> enc.obj,
                       header |-> [ContentType |-> <<"application/json">>,
                                   Authorization |->
                                       IF accessToken # "" THEN <<bearerToken>>
                                       ELSE <<>>]]]

(***************************************************************************)
(* parseResponse                                                           *)
(* A response is [id, StatusCode, readOk, wellFormed, obj]: readOk is      *)
(* whether ioutil.ReadAll of the body succeeds, wellFormed whether the     *)
(* text read is JSON, obj the object it holds.  The result tells how the   *)
(* call ended (returned / panic), the error returned, the target after the *)
(* call, and whether the body was closed, read and decoded.                *)
(***************************************************************************)
NoResp == [id |-> "none", StatusCode |-> 0, readOk |-> TRUE,
           wellFormed |-> FALSE, obj |-> <<>>]

\* parseResponse taking only the expected status, not 400
parseResponseOnlyExpected(response, expectedStatus, clazz, type) ==
    IF response.StatusCode # expectedStatus
    THEN [outcome |-> "returned",
          err |-> Err("status", response.StatusCode, "unexpected Status Code"),
          clazz |-> clazz, closed |-> TRUE, read |-> FALSE, decoded |-> FALSE]
    ELSE IF ~response.readOk
    THEN [outcome |-> "panic",
          err |-> Err("panic", 0, "read failed"),
          clazz |-> clazz, closed |-> TRUE, read |-> TRUE, decoded |-> FALSE]
    ELSE LET d == jsonUnmarshal(response.wellFormed, response.obj, clazz, type)
         IN  [outcome |-> "returned", err |-> d.err, clazz |-> d.clazz,
              closed |-> TRUE, read |-> TRUE, decoded |-> TRUE]

\* parseResponse closing the body after the decode instead of by defer
parseResponseCloseAtEnd(response, expectedStatus, clazz, type) ==
    IF response.StatusCode # expectedStatus /\ response.StatusCode # StatusBadRequest
    THEN [outcome |-> "returned",
          err |-> Err("status", response.StatusCode, "unexpected Status Code"),
          clazz |-> clazz, closed |-> FALSE, read |-> FALSE, decoded |-> FALSE]
    ELSE IF ~response.readOk
    THEN [outcome |-> "panic",
          err |-> Err("panic", 0, "read failed"),
          clazz |-> clazz, closed |-> FALSE, read |-> TRUE, decoded |-> FALSE]
    ELSE LET d == jsonUnmarshal(response.wellFormed, response.obj, clazz, type)
         IN  [outcome |-> "returned", err |-> d.err, clazz |-> d.clazz,
              closed |-> TRUE, read |-> TRUE, decoded |-> TRUE]

parseResponse(response, expectedStatus, clazz, type) ==
    IF response.StatusCode # expectedStatus /\ response.StatusCode # StatusBadRequest
    THEN [outcome |-> "returned",
          err |-> Err("status", response.StatusCode, "unexpected Status Code"),
          clazz |-> clazz, closed |-> TRUE, read |-> FALSE, decoded |-> FALSE]
    ELSE IF ~response.readOk
    THEN [outcome |-> "panic",
          err |-> Err("panic", 0, "read failed"),
          clazz |-> clazz, closed |-> TRUE, read |-> TRUE, decoded |-> FALSE]
    ELSE LET d == jsonUnmarshal(response.wellFormed, response.obj, clazz, type)
         IN  [outcome |-> "returned", err |-> d.err, clazz |-> d.clazz,
              closed |-> TRUE, read |-> TRUE, decoded |-> TRUE]

(***************************************************************************)
(* The client and the call record.                                         *)
(***************************************************************************)
ClientIds == {"cid"}
ClientSecrets == {"secret"}
RedirectUris == {"https://app.example/cb"}
Links == {"https://example.com/a"}
UserCodes == {"xyz"}
RefreshTokens == {"ref1"}

NewClient(clientId, clientSecret, redirectUri) ==
    [apiURL |-> URL(apiHost, "", <<>>),
     authURL |-> URL(authHost, "", <<>>),
     clientId |-> clientId,
     clientSecret |-> clientSecret,
     redirectUri |-> redirectUri,
     ClientCode |-> ""]

\* the record of a call: where it stands (pc), what it was given, what
\* newRequest answered (buildErr, built), what it sent, opened and closed,
\* and how it ended
Blank(op) ==
    [pc |-> "done", op |-> op, type |-> "",
     accessToken |-> "", ctx |-> "nil", isRoot |-> FALSE, parentId |-> 0,
     link |-> "", redirect |-> [code |-> "", error |-> "", hasResponse |-> FALSE,
                                StatusCode |-> 0],
     req |-> NoReq, buildErr |-> NoErr, built |-> <<>>, sent |-> <<>>,
     scrape |-> "none", title |-> "",
     opened |-> {}, closed |-> {},
     hasResp |-> FALSE, resp |-> NoResp, expectedStatus |-> 0, before |-> <<>>,
     read |-> FALSE, decoded |-> FALSE,
     outcome |-> "returned", err |-> NoErr,
     hasResult |-> FALSE, result |-> <<>>,
     code |-> "", url |-> NoURL, page |-> ""]

Idle == call.pc \in {"idle", "done"}

Init ==
    /\ \E id \in ClientIds, secret \in ClientSecrets, uri \in RedirectUris :
          client = NewClient(id, secret, uri)
    /\ created = client
    /\ call = [Blank("none") EXCEPT !.pc = "idle", !.outcome = "none"]

(***************************************************************************)
(* What the transport and the remote ends answer.                          *)
(***************************************************************************)
ObjToken ==
    ("access_token" :> "tok1") @@ ("refresh_token" :> "ref1")
        @@ ("expires_in" :> "3600")
ObjMisconfigured ==
    ("result" :> "false") @@ ("status" :> "400")
        @@ ("errorMessage" :> "Incorrect redirect_uri")
ObjError == ("result" :> "false") @@ ("error" :> "invalid_grant")
ObjItems == ("result" :> "true") @@ ("items" :> "[{_id:1}]")
ObjItem == ("result" :> "true") @@ ("item" :> "{_id:1}")
Objs == {ObjToken, ObjMisconfigured, ObjError, ObjItems, ObjItem}

Responses ==
    {[id |-> "api", StatusCode |-> st, readOk |-> TRUE, wellFormed |-> TRUE,
      obj |-> o] : st \in Statuses, o \in Objs}
    \cup {[id |-> "api", StatusCode |-> st, readOk |-> ok, wellFormed |-> FALSE,
           obj |-> <<>>] : st \in Statuses, ok \in BOOLEAN}

\* httpClient.Do returns an error and no response, or a response
TransportOutcomes ==
    {[failed |-> TRUE, resp |-> NoResp]}
    \cup {[failed |-> FALSE, resp |-> r] : r \in Responses}

\* http.Get(link) returns no response, or a page with or without a title
ScrapeOutcomes ==
    {[failed |-> TRUE, hasTitle |-> FALSE, title |-> ""],
     [failed |-> FALSE, hasTitle |-> FALSE, title |-> ""],
     [failed |-> FALSE, hasTitle |-> TRUE, title |-> "Example Domain"]}

RedirectRequests ==
    {[code |-> c, error |-> e, hasResponse |-> h,
      StatusCode |-> IF h THEN 302 ELSE 0] :
        c \in {"", "abc123"}, e \in {"", "access_denied"}, h \in BOOLEAN}

\* GetHtmlTitle(resp.Body): the title of the page, or the absence signal
GetHtmlTitle(page) == [val |-> page.title, ok |-> page.hasTitle]

(***************************************************************************)
(* The shape every operation shares.                                       *)
(***************************************************************************)
\* afterNewRequest without its error check: the request goes out anyway
afterNewRequestUnchecked(c, build) ==
    [c EXCEPT !.pc = "sending", !.outcome = "none", !.buildErr = build.err,
              !.built = Append(@, build.req), !.req = build.req]

\* req, err := c.newRequest(...); if err != nil { return nil, err }
\* and the request is ready to be handed to c.httpClient.Do
afterNewRequest(c, build) ==
    IF build.err # NoErr
    THEN [c EXCEPT !.pc = "done", !.outcome = "returned", !.err = build.err,
                   !.buildErr = build.err]
    ELSE [c EXCEPT !.pc = "sending", !.outcome = "none",
                   !.built = Append(@, build.req), !.req = build.req]

\* the start of a call of operation op, decoding into a record of type type
Start(op, type, accessToken, ctx) ==
    [Blank(op) EXCEPT !.type = type, !.accessToken = accessToken, !.ctx = ctx]

\* the deferred close of CreateSimpleRaindrop, run on every way out of it
deferredClose(c) ==
    IF c.op = "CreateSimpleRaindrop" /\ c.scrape \in {"noTitle", "title"}
    THEN [c EXCEPT !.closed = @ \cup {"scrape"}]
    ELSE c

\* response, err := c.httpClient.Do(req); if err != nil { return nil, err }
\* result := new(T); if err := parseResponse(response, 200, &result) ...
afterDo(c, t) ==
    LET sent == [c EXCEPT !.sent = Append(@, c.req), !.pc = "done"]
        p == parseResponse(t.resp, StatusOK, zeroValue(c.type), c.type)
        ok == p.outcome = "returned" /\ p.err = NoErr
    IN  IF t.failed
        THEN deferredClose([sent EXCEPT !.outcome = "returned",
                                        !.err = Err("transport", 0, "Do failed")])
        ELSE deferredClose(
               [sent EXCEPT !.hasResp = TRUE, !.resp = t.resp,
                            !.expectedStatus = StatusOK,
                            !.before = zeroValue(c.type),
                            !.opened = @ \cup {t.resp.id},
                            !.closed = @ \cup (IF p.closed THEN {t.resp.id} ELSE {}),
                            !.read = p.read, !.decoded = p.decoded,
                            !.outcome = p.outcome, !.err = p.err,
                            !.hasResult = ok /\ c.op # "DeleteTags",
                            !.result = IF ok /\ c.op # "DeleteTags"
                                       THEN p.clazz ELSE <<>>])

httpClientDo ==
    /\ call.pc = "sending"
    /\ \E t \in TransportOutcomes : call' = afterDo(call, t)
    /\ UNCHANGED <<client, created>>

(***************************************************************************)
(* Resource operations.                                                    *)
(***************************************************************************)
\* path.Join(c.apiURL.Path, endpoint); the base path is empty and the
\* endpoints are clean, so the join is the concatenation
pathJoin(base, endpoint) == base \o endpoint

GetRootCollections ==
    /\ Idle
    /\ \E accessToken \in Tokens, ctx \in Contexts :
          LET u == URL(client.apiURL.host,
                       pathJoin(client.apiURL.path, endpointGetRootCollections), <<>>)
          IN  call' = afterNewRequest(
                          Start("GetRootCollections", "GetCollectionsResponse",
                                accessToken, ctx),
                          newRequest(accessToken, "GET", u, NoBody, ctx))
    /\ UNCHANGED <<client, created>>

GetChildCollections ==
    /\ Idle
    /\ \E accessToken \in Tokens, ctx \in Contexts :
          LET u == URL(client.apiURL.host,
                       pathJoin(client.apiURL.path, endpointGetChildCollections), <<>>)
          IN  call' = afterNewRequest(
                          Start("GetChildCollections", "GetCollectionsResponse",
                                accessToken, ctx),
                          newRequest(accessToken, "GET", u, NoBody, ctx))
    /\ UNCHANGED <<client, created>>

GetCollection ==
    /\ Idle
    /\ \E accessToken \in Tokens, id \in Ids, ctx \in Contexts :
          LET u == URL(client.apiURL.host,
                       pathJoin(client.apiURL.path, endpointGetCollection), Itoa(id))
          IN  call' = afterNewRequest(
                          Start("GetCollection", "GetCollectionResponse",
                                accessToken, ctx),
                          newRequest(accessToken, "GET", u, NoBody, ctx))
    /\ UNCHANGED <<client, created>>

\* the createCollectionRequest CreateCollection fills in
collectionRequest(isRoot, view, title, sort, public, parentId, cover) ==
    IF isRoot
    THEN [zeroValue("createCollectionRequest") EXCEPT
             !.View = view, !.Title = title, !.Sort = sort, !.Public = public,
             !.Cover = cover]
    ELSE [zeroValue("createCollectionRequest") EXCEPT
             !.View = view, !.Title = title, !.Sort = sort, !.Public = public,
             !.ParentId = parentId, !.Cover = cover]

CreateCollection ==
    /\ Idle
    /\ \E accessToken \in Tokens, isRoot \in BOOLEAN, parentId \in Ids,
          ctx \in Contexts :
          LET fullUrl == URL(client.apiURL.host, endpointCreateCollection, <<>>)
              collection == collectionRequest(isRoot, "list", "Books", 1, TRUE,
                                              parentId, <<"cover.png">>)
              c == [Start("CreateCollection", "CreateCollectionResponse",
                          accessToken, ctx)
                       EXCEPT !.isRoot = isRoot, !.parentId = parentId]
          IN  call' = afterNewRequest(c,
                          newRequest(accessToken, "POST", fullUrl,
                                     Body("createCollectionRequest", collection), ctx))
    /\ UNCHANGED <<client, created>>

\* CreateSimpleRaindrop up to http.Get(link), where it waits for the page
CreateSimpleRaindrop ==
    /\ Idle
    /\ \E accessToken \in Tokens, link \in Links, ctx \in Contexts :
          call' = [Start("CreateSimpleRaindrop", "SingleRaindropResponse",
                         accessToken, ctx)
                      EXCEPT !.pc = "scraping", !.outcome = "none", !.link = link]
    /\ UNCHANGED <<client, created>>

\* the title CreateSimpleRaindrop gives the bookmark
scrapedTitle(page) ==
    IF GetHtmlTitle(page).ok THEN GetHtmlTitle(page).val
    ELSE "Fail to get HTML title"

\* CreateSimpleRaindrop from the answer of http.Get to the send of the POST.
\* The error of http.Get is dropped; with no response, resp is nil and
\* resp.Body (line 360, and again in the deferred close) dereferences nil.
afterGet(c, s) ==
    IF s.failed
    THEN [c EXCEPT !.pc = "done", !.scrape = "failed", !.outcome = "panic",
                   !.err = Err("panic", 0, "nil pointer dereference")]
    ELSE LET fullUrl == URL(client.apiURL.host, endpointRaindrop, <<>>)
             title == scrapedTitle(s)
             raindrop == [zeroValue("Raindrop") EXCEPT
                             !.Title = title, !.Link = c.link]
             c1 == [c EXCEPT !.scrape = IF s.hasTitle THEN "title" ELSE "noTitle",
                             !.title = title,
                             !.opened = @ \cup {"scrape"}]
             c2 == afterNewRequest(c1,
                       newRequest(c.accessToken, "POST", fullUrl,
                                  Body("Raindrop", raindrop), c.ctx))
         IN  IF c2.pc = "done" THEN deferredClose(c2) ELSE c2

httpGet ==
    /\ call.pc = "scraping"
    /\ \E s \in ScrapeOutcomes : call' = afterGet(call, s)
    /\ UNCHANGED <<client, created>>

\* the path GetRaindrops asks for: path.Join drops an empty collectionID and
\* cleans the trailing slash away
raindropsPath(base, collectionID) ==
    IF collectionID = <<>> THEN pathJoin(base, "/rest/v1/raindrops")
    ELSE pathJoin(base, endpointRaindrops)

\* if err != nil { return nil, err } in GetRaindrops, then the perpage query
getRaindropsRequest(c, build, perpage) ==
    LET c1 == afterNewRequest(c, build)
    IN  IF c1.pc = "sending"
        THEN [c1 EXCEPT !.req.query = <<<<"perpage", Itoa(perpage)>>>>]
        ELSE c1

GetRaindrops ==
    /\ Idle
    /\ \E accessToken \in Tokens, collectionID \in Segs, ctx \in Contexts :
          LET u == URL(client.apiURL.host,
                       raindropsPath(client.apiURL.path, collectionID), collectionID)
          IN  call' = getRaindropsRequest(
                          Start("GetRaindrops", "MultiRaindropsResponse",
                                accessToken, ctx),
                          newRequest(accessToken, "GET", u, NoBody, ctx), 50)
    /\ UNCHANGED <<client, created>>

GetTags ==
    /\ Idle
    /\ \E accessToken \in Tokens, ctx \in Contexts :
          LET u == URL(client.apiURL.host,
                       pathJoin(client.apiURL.path, endpointTags), <<>>)
          IN  call' = afterNewRequest(
                          Start("GetTags", "Tags", accessToken, ctx),
                          newRequest(accessToken, "GET", u, NoBody, ctx))
    /\ UNCHANGED <<client, created>>

DeleteTags ==
    /\ Idle
    /\ \E accessToken \in Tokens, ctx \in Contexts :
          LET u == URL(client.apiURL.host,
                       pathJoin(client.apiURL.path, endpointTags), <<>>)
              body == Body("deleteTagsRequest", [Tags |-> <<"recipe">>])
          IN  call' = afterNewRequest(
                          Start("DeleteTags", "DeleteTagsResponse", accessToken, ctx),
                          newRequest(accessToken, "DELETE", u, body, ctx))
    /\ UNCHANGED <<client, created>>

createSingleSearchParameter(k, v) ==
    "[{\"key\":\"" \o k \o "\",\"val\":\"" \o v \o "\"}]"

GetTaggedRaindrops ==
    /\ Idle
    /\ \E accessToken \in Tokens, tag \in {"recipe"}, ctx \in Contexts :
          LET u == URL(client.apiURL.host,
                       pathJoin(client.apiURL.path, endpointRaindrops), <<"0">>)
              c1 == afterNewRequest(
                        Start("GetTaggedRaindrops", "MultiRaindropsResponse",
                              accessToken, ctx),
                        newRequest(accessToken, "GET", u, NoBody, ctx))
          IN  call' = IF c1.pc = "sending"
                      THEN [c1 EXCEPT !.req.query =
                               <<<<"search", createSingleSearchParameter("tag", tag)>>>>]
                      ELSE c1
    /\ UNCHANGED <<client, created>>

(***************************************************************************)
(* OAuth operations.                                                       *)
(***************************************************************************)
\* path.Join(uri) cleans the text: a doubled slash becomes one
pathClean(s) ==
    CASE s = "https://app.example/cb" -> "https:/app.example/cb"
      [] OTHER -> s

\* fmt.Sprintf(authorizeUri, c.clientId, c.redirectUri), cleaned by path.Join
authorizePath(clientId, redirectUri) ==
    endpointAuthorize \o "?client_id=" \o clientId \o "&redirect_uri="
        \o pathClean(redirectUri)

GetAuthorizationURL ==
    /\ Idle
    /\ LET uri == authorizePath(client.clientId, client.redirectUri)
           u == [client.authURL EXCEPT !.path = uri]
       IN  \* u := c.authURL is the client's own URL, not a copy: u.Path = ...
           \* writes c.authURL.Path
           /\ client' = [client EXCEPT !.authURL = u]
           /\ call' = [Blank("GetAuthorizationURL") EXCEPT !.url = u]
    /\ UNCHANGED created

GetAccessToken ==
    /\ Idle
    /\ \E userCode \in UserCodes, ctx \in Contexts :
          LET fullUrl == URL(client.authURL.host, endpointAccessToken, <<>>)
              body == Body("accessTokenRequest",
                           [Code |-> userCode,
                            ClientID |-> client.clientId,
                            ClientSecret |-> client.clientSecret,
                            RedirectUri |-> client.redirectUri,
                            GrantType |-> "authorization_code"])
          IN  call' = afterNewRequest(
                          Start("GetAccessToken", "AccessTokenResponse", "", ctx),
                          newRequest("", "POST", fullUrl, body, ctx))
    /\ UNCHANGED <<client, created>>

RefreshAccessToken ==
    /\ Idle
    /\ \E refreshToken \in RefreshTokens, ctx \in Contexts :
          LET fullUrl == URL(client.authURL.host, endpointAccessToken, <<>>)
              body == Body("refreshTokenRequest",
                           [ClientId |-> client.clientId,
                            ClientSecret |-> client.clientSecret,
                            GrantType |-> "authorization_code",
                            RefreshToken |-> refreshToken])
          IN  call' = afterNewRequest(
                          Start("RefreshAccessToken", "AccessTokenResponse", "", ctx),
                          newRequest("", "POST", fullUrl, body, ctx))
    /\ UNCHANGED <<client, created>>

\* GetAuthorizationCode(r): r.Response is nil on a request a server
\* delivers, and r.Response.StatusCode then dereferences nil
GetAuthorizationCode(r) ==
    LET code == r.code
        authErr == r.error
    IN  IF code = "" /\ authErr # ""
        THEN [outcome |-> "returned", code |-> "",
              err |-> Err("auth", 0, "Can't get authorization code: " \o authErr)]
        ELSE IF code = ""
        THEN IF r.hasResponse
             THEN [outcome |-> "returned", code |-> "",
                   err |-> Err("auth", r.StatusCode, "Can't get authorization code: ")]
             ELSE [outcome |-> "panic", code |-> "",
                   err |-> Err("panic", 0, "nil pointer dereference")]
        ELSE [outcome |-> "returned", code |-> code, err |-> NoErr]

GetAuthorizationCodeStep ==
    /\ Idle
    /\ \E r \in RedirectRequests :
          LET g == GetAuthorizationCode(r)
          IN  call' = [Blank("GetAuthorizationCode") EXCEPT
                          !.redirect = r, !.outcome = g.outcome,
                          !.code = g.code, !.err = g.err]
    /\ UNCHANGED <<client, created>>

GetAuthorizationCodeHandler ==
    /\ Idle
    /\ \E r \in RedirectRequests, writeOk \in BOOLEAN :
          LET g == GetAuthorizationCode(r)
              page == "<h1>You've been authorized</h1><p>" \o g.code \o "</p>"
          IN  IF g.outcome = "panic"
              THEN /\ call' = [Blank("GetAuthorizationCodeHandler") EXCEPT
                                  !.redirect = r, !.outcome = "panic", !.err = g.err]
                   /\ UNCHANGED client
              ELSE /\ call' = [Blank("GetAuthorizationCodeHandler") EXCEPT
                                  !.redirect = r, !.code = g.code,
                                  !.page = IF writeOk THEN page ELSE ""]
                   /\ client' = [client EXCEPT !.ClientCode = g.code]
    /\ UNCHANGED created

(***************************************************************************)
(* The client under any sequence of calls.                                 *)
(***************************************************************************)
Next ==
    \/ GetRootCollections
    \/ GetChildCollections
    \/ GetCollection
    \/ CreateCollection
    \/ CreateSimpleRaindrop
    \/ httpGet
    \/ GetRaindrops
    \/ GetTags
    \/ DeleteTags
    \/ GetTaggedRaindrops
    \/ GetAuthorizationURL
    \/ GetAccessToken
    \/ RefreshAccessToken
    \/ GetAuthorizationCodeStep
    \/ GetAuthorizationCodeHandler
    \/ httpClientDo

Spec == Init /\ [][Next]_vars

(***************************************************************************)
(* parseResponse on its own: any response, any expected status, a target   *)
(* of any of three types, fresh or already filled.                         *)
(***************************************************************************)
ParseTypes == {"AccessTokenResponse", "CreateCollectionResponse", "Tags"}
Prefilled(type) == [f \in DOMAIN zeroValue(type) |-> "old"]

parseResponseStep ==
    /\ \E response \in Responses, expectedStatus \in ExpectedStatuses,
          type \in ParseTypes, filled \in BOOLEAN :
          LET clazz == IF filled THEN Prefilled(type) ELSE zeroValue(type)
              p == parseResponse(response, expectedStatus, clazz, type)
          IN  call' = [Blank("parseResponse") EXCEPT
                          !.type = type, !.hasResp = TRUE, !.resp = response,
                          !.expectedStatus = expectedStatus, !.before = clazz,
                          !.opened = {response.id},
                          !.closed = IF p.closed THEN {response.id} ELSE {},
                          !.read = p.read, !.decoded = p.decoded,
                          !.outcome = p.outcome, !.err = p.err,
                          !.hasResult = TRUE, !.result = p.clazz]
    /\ UNCHANGED <<client, created>>

NextParse == parseResponseStep

SpecParse == Init /\ [][NextParse]_vars

(***************************************************************************)
(* Properties.                                                             *)
(***************************************************************************)
Done == call.pc = "done"

\* C1: parseResponse reads the body if and only if the status is the
\* expected one or 400, and decodes only then; for any other status it
\* returns a status error carrying the observed code, reads and decodes
\* nothing and leaves the target as it was.
C1_ParseOnlyExpectedOr400 ==
    call.op = "parseResponse" =>
        LET accepted == call.resp.StatusCode = call.expectedStatus
                        \/ call.resp.StatusCode = 400
        IN  /\ call.read <=> accepted
            /\ call.decoded <=> (accepted /\ call.resp.readOk)
            /\ ~accepted =>
                  /\ call.outcome = "returned"
                  /\ call.err.kind = "status"
                  /\ call.err.code = call.resp.StatusCode
                  /\ call.result = call.before

\* a 200 answered where 201 was expected, into a target already filled
C1_Witness ==
    /\ call.op = "parseResponse"
    /\ call.resp.StatusCode = 200
    /\ call.expectedStatus = 201
    /\ call.err.kind = "status"
    /\ call.before = Prefilled("AccessTokenResponse")
    /\ call.resp.obj = ObjToken

\* C2: a code exchange answered 200 or 400 with a well-formed envelope of
\* result false and an error message returns no error and a record that
\* holds that message.
C2_ErrorMessagePreserved ==
    ( /\ Done
      /\ call.op = "GetAccessToken"
      /\ call.hasResp
      /\ call.resp.StatusCode \in {200, 400}
      /\ call.resp.readOk
      /\ call.resp.wellFormed
      /\ "result" \in DOMAIN call.resp.obj
      /\ call.resp.obj["result"] = "false"
      /\ {"error", "errorMessage"} \cap DOMAIN call.resp.obj # {} )
    => /\ call.outcome = "returned"
       /\ call.err = NoErr
       /\ call.hasResult
       /\ \A k \in {"error", "errorMessage"} \cap DOMAIN call.resp.obj :
             \E f \in DOMAIN call.result : call.result[f] = call.resp.obj[k]

\* C3: the body CreateCollection encodes holds no parent identifier when
\* isRoot is true, and holds exactly the supplied parentId when isRoot is
\* false, zero included.
C3_ParentIdField ==
    (call.op = "CreateCollection" /\ Len(call.built) = 1) =>
        LET body == call.built[1].body
        IN  IF call.isRoot
            THEN "parent.$id" \notin DOMAIN body
            ELSE /\ "parent.$id" \in DOMAIN body
                 /\ body["parent.$id"] = call.parentId

\* C4: GetAuthorizationCode returns, for every redirect request: the code
\* and no error when the code is not empty; an error carrying the error
\* text when only the error is given; an error carrying the response status
\* when neither is.
C4_AlwaysReturns ==
    call.op = "GetAuthorizationCode" =>
        LET r == call.redirect
        IN  /\ call.outcome = "returned"
            /\ r.code # "" => (call.code = r.code /\ call.err = NoErr)
            /\ (r.code = "" /\ r.error # "") =>
                  /\ call.err.kind = "auth"
                  /\ call.err.text = "Can't get authorization code: " \o r.error
            /\ (r.code = "" /\ r.error = "") =>
                  /\ call.err.kind = "auth"
                  /\ call.err.code = r.StatusCode

\* C5: every request newRequest builds carries Content-Type
\* application/json, and Authorization: Bearer <token> if and only if a
\* token was supplied; the token exchange and refresh send no
\* Authorization, a resource operation sends the token it was given.
C5_Headers ==
    /\ \A i \in 1..Len(call.built) :
          LET h == call.built[i].header
          IN  /\ h.ContentType = <<"application/json">>
              /\ h.Authorization # <<>> <=> call.accessToken # ""
              /\ call.accessToken # "" =>
                    h.Authorization = <<"Bearer " \o call.accessToken>>
    /\ \A i \in 1..Len(call.sent) :
          /\ call.sent[i].header = call.built[i].header
          /\ call.op \in {"GetAccessToken", "RefreshAccessToken"} =>
                call.sent[i].header.Authorization = <<>>

C5_Witness ==
    /\ Done
    /\ call.op = "GetTags"
    /\ call.accessToken = "tok1"
    /\ Len(call.sent) = 1
    /\ call.sent[1].header.Authorization = <<"Bearer tok1">>

\* C6: a scrape that fails, or finds no title, never aborts
\* CreateSimpleRaindrop: the title is the placeholder and the POST is built
\* and sent.
C6_ScrapeFailureTolerated ==
    (call.op = "CreateSimpleRaindrop" /\ call.scrape \in {"failed", "noTitle"}) =>
        /\ call.outcome # "panic"
        /\ call.title = "Fail to get HTML title"
        /\ Len(call.built) = 1
        /\ call.built[1].method = "POST"
        /\ call.pc = "sending" \/ Len(call.sent) = 1

\* C7: no operation writes the state of the client: it stays as created.
C7_ClientNeverWritten == client = created

\* C8: a body that cannot be read, or is not JSON, on a response of the
\* expected status or 400 is a returned error other than the status error.
C8_ReadFailureReturned ==
    ( /\ Done
      /\ call.hasResp
      /\ call.resp.StatusCode \in {call.expectedStatus, 400}
      /\ ~call.resp.readOk \/ ~call.resp.wellFormed )
    => /\ call.outcome = "returned"
       /\ call.err.kind \notin {"nil", "status"}

\* C9: when an operation has finished, every response body it obtained has
\* been closed, however it ended.
C9_BodiesClosed == Done => call.opened \subseteq call.closed

\* the page was scraped, the POST answered 404: both bodies opened
C9_Witness ==
    /\ Done
    /\ call.op = "CreateSimpleRaindrop"
    /\ call.opened = {"scrape", "api"}
    /\ call.err.kind = "status"

\* C10: when newRequest fails, the operation returns that error and has
\* done no network I/O: nothing fetched, nothing sent, no response obtained.
C10_NoIOOnConstructionError ==
    call.buildErr # NoErr =>
        /\ Done
        /\ call.outcome = "returned"
        /\ call.err = call.buildErr
        /\ call.sent = <<>>
        /\ call.scrape = "none"
        /\ call.opened = {}

C10_Witness ==
    /\ Done
    /\ call.op = "GetRaindrops"
    /\ call.buildErr.kind = "construction"
    /\ call.err.kind = "construction"

====
